---- MODULE Spec2Model ----
(***************************************************************************)
(* Model of the game-show coordination server (src/server.js), with the    *)
(* CLEAR_LAST_BUZZ handler of the earlier protocol variant                 *)
(* (src/unnamed/part_001).                                                 *)
(*                                                                         *)
(* State: the process-wide registry `games` (game code -> GameState), the  *)
(* directory `connections` (channel -> connection info), the backing       *)
(* store, the loads in flight, the host-abandonment timers, and, for       *)
(* observation, the messages sent while handling the last event.           *)
(*                                                                         *)
(* Abstractions: display names and host ids carry no control flow in the   *)
(* handlers modelled here and are left out; time is counted in hours; a JS *)
(* Map is a function (its insertion order is not modelled; fan-out goes in *)
(* the order of ChannelOrder); the backing store returns what was written. *)
(***************************************************************************)
EXTENDS Integers, Sequences, FiniteSets, TLC

\* ------------------------------------------------------------------ bounds
MaxPending == 1
MaxTimers == 1
MaxClock == 5

\* ------------------------------------------------------------------ constants
\* the age after which the sweep evicts a session, and the lifetime of a
\* saved record, in hours
oneHour == 1
fourHours == 4

\* ------------------------------------------------------------------ universe
ChannelOrder == <<"w1", "w2", "w3">>
Channels == {ChannelOrder[i] : i \in 1..Len(ChannelOrder)}
Codes == {"123456", "654321"}
PlayerIds == {"P1", "P2", "P3"}
TwoPlayers == {"P1", "P2"}
TeamNames == {"Red", "Blue"}
Null == "null"

VARIABLES
    games,        \* game code -> GameState, the resident sessions
    connections,  \* channel -> connection info
    closed,       \* channels whose readyState is no longer OPEN
    store,        \* backing store: game code -> saved record
    pending,      \* loadGameState calls in flight, with the join that waits
    timers,       \* game code -> host-abandonment timers not yet fired, oldest
                  \* first, each with the hours that struck since it was set
    sent,         \* what went out while handling the last event, in order:
                  \* the messages to channels and the writes to the store
    now           \* Date.now(), in hours since the server started

vars == <<games, connections, closed, store, pending, timers, sent, now>>

\* ------------------------------------------------------------------ maps
Has(m, k) == k \in DOMAIN m
MapSet(m, k, v) == [x \in DOMAIN m \cup {k} |-> IF x = k THEN v ELSE m[x]]
MapDelete(m, k) == [x \in DOMAIN m \ {k} |-> m[x]]
EmptyMap == [x \in {} |-> Null]

\* ------------------------------------------------------------------ GameState
\* constructor
GameState(ws) ==
    [ hostConnection |-> ws,
      currentGame |-> 1,
      currentRound |-> 1,
      games |-> <<>>,
      teams |-> EmptyMap,
      players |-> EmptyMap,
      buzzedPlayers |-> <<>>,
      scoringEnabled |-> FALSE,
      gameStarted |-> FALSE,
      gameEnded |-> FALSE,
      createdAt |-> now ]

NewTeam ==
    [ name |-> Null, members |-> <<>>, totalScore |-> 0, roundScores |-> <<>>,
      manager |-> Null ]

IsMember(team, playerId) ==
    \E i \in 1..Len(team.members) : team.members[i].playerId = playerId

\* team.members.forEach(member => member.isManager = member.playerId === id)
MarkManager(members, id) ==
    [i \in 1..Len(members) |->
        [members[i] EXCEPT !.isManager = (members[i].playerId = id)]]

\* an addPlayer that pushes the member without looking for it in the team
addPlayerAlwaysPush(g, playerId, teamName, isManager) ==
    LET team0 == IF Has(g.teams, teamName) THEN g.teams[teamName]
                 ELSE [NewTeam EXCEPT !.name = teamName]
        team1 == [team0 EXCEPT !.members =
                     Append(@, [playerId |-> playerId,
                                isManager |-> isManager \/ Len(team0.members) = 0])]
        team2 == IF isManager \/ team1.manager = Null
                 THEN [team1 EXCEPT !.manager = playerId,
                                    !.members = MarkManager(@, playerId)]
                 ELSE team1
    IN  [g EXCEPT !.players = MapSet(@, playerId, [teamName |-> teamName]),
                  !.teams = MapSet(@, teamName, team2)]

addPlayer(g, playerId, teamName, isManager) ==
    LET team0 == IF Has(g.teams, teamName) THEN g.teams[teamName]
                 ELSE [NewTeam EXCEPT !.name = teamName]
        team1 == IF IsMember(team0, playerId)
                 THEN team0
                 ELSE [team0 EXCEPT !.members =
                          Append(@, [playerId |-> playerId,
                                     isManager |-> isManager \/ Len(team0.members) = 0])]
        team2 == IF isManager \/ team1.manager = Null
                 THEN [team1 EXCEPT !.manager = playerId,
                                    !.members = MarkManager(@, playerId)]
                 ELSE team1
    IN  [g EXCEPT !.players = MapSet(@, playerId, [teamName |-> teamName]),
                  !.teams = MapSet(@, teamName, team2)]

\* a removal that promotes nobody when the manager leaves
removePlayerNoPromotion(g, playerId) ==
    LET known == Has(g.players, playerId) /\ Has(g.teams, g.players[playerId].teamName)
        tn == g.players[playerId].teamName
        NotHim(m) == m.playerId # playerId
        NotHis(b) == b.playerId # playerId
        kept == SelectSeq(g.teams[tn].members, NotHim)
        teams1 == IF ~known THEN g.teams
                  ELSE IF Len(kept) = 0 THEN MapDelete(g.teams, tn)
                  ELSE MapSet(g.teams, tn, [g.teams[tn] EXCEPT !.members = kept])
    IN  [g EXCEPT !.teams = teams1,
                  !.players = MapDelete(@, playerId),
                  !.buzzedPlayers = SelectSeq(@, NotHis)]

removePlayer(g, playerId) ==
    LET known == Has(g.players, playerId) /\ Has(g.teams, g.players[playerId].teamName)
        tn == g.players[playerId].teamName
        NotHim(m) == m.playerId # playerId
        NotHis(b) == b.playerId # playerId
        kept == SelectSeq(g.teams[tn].members, NotHim)
        promoted == IF g.teams[tn].manager = playerId /\ Len(kept) > 0
                    THEN [g.teams[tn] EXCEPT
                            !.members = [kept EXCEPT ![1].isManager = TRUE],
                            !.manager = kept[1].playerId]
                    ELSE [g.teams[tn] EXCEPT !.members = kept]
        teams1 == IF ~known THEN g.teams
                  ELSE IF Len(kept) = 0 THEN MapDelete(g.teams, tn)
                  ELSE MapSet(g.teams, tn, promoted)
    IN  [g EXCEPT !.teams = teams1,
                  !.players = MapDelete(@, playerId),
                  !.buzzedPlayers = SelectSeq(@, NotHis)]

\* a lock-out that looks only at the buzzing player's own records
teamHasBuzzedOwnOnly(g, playerId) ==
    \E i \in 1..Len(g.buzzedPlayers) : g.buzzedPlayers[i].playerId = playerId

\* the some() test of handleBuzz
teamHasBuzzed(g, playerId) ==
    \E i \in 1..Len(g.buzzedPlayers) :
        /\ Has(g.players, g.buzzedPlayers[i].playerId)
        /\ g.players[g.buzzedPlayers[i].playerId].teamName = g.players[playerId].teamName

\* a buzz admitted before the game has started
buzzAcceptedUnstarted(g, playerId) ==
    /\ Has(g.players, playerId)
    /\ ~teamHasBuzzed(g, playerId)

buzzAccepted(g, playerId) ==
    /\ Has(g.players, playerId)
    /\ g.gameStarted
    /\ ~teamHasBuzzed(g, playerId)

\* handleBuzz: [success, game]
handleBuzz(g, playerId) ==
    IF buzzAccepted(g, playerId)
    THEN [success |-> TRUE,
          game |-> [g EXCEPT !.buzzedPlayers =
                       Append(@, [playerId |-> playerId,
                                  teamName |-> g.players[playerId].teamName])]]
    ELSE [success |-> FALSE, game |-> g]

\* ------------------------------------------------------------------ messages
\* One outbound message: the receiving channel, the type tag and the fields
\* of the payload that the handlers' callers can tell apart.
Msg(to, type, text, playerId, teamName) ==
    [to |-> to, type |-> type, text |-> text, playerId |-> playerId, teamName |-> teamName,
     nums |-> <<>>]

\* the same messages with the numbers of their payload
WithNums(msgs, nums) == [i \in 1..Len(msgs) |-> [msgs[i] EXCEPT !.nums = nums]]

HostInfo(gameCode) ==
    [type |-> "host", gameCode |-> gameCode, playerId |-> Null, teamName |-> Null]

PlayerInfo(gameCode, playerId, teamName) ==
    [type |-> "player", gameCode |-> gameCode, playerId |-> playerId, teamName |-> teamName]

\* connections.get(ws)?.type === 'host'
isHost(ws) == Has(connections, ws) /\ connections[ws].type = "host"

\* the channels `kept` of a connections.forEach, in fan-out order
Visit(kept) ==
    LET Sel(ch) == ch \in kept
    IN  SelectSeq(ChannelOrder, Sel)

\* a broadcast that does not leave the excluded connection out
broadcastToAll(gs, conns, gameCode, type, excludeConnection) ==
    LET Keep(ch) == conns[ch].gameCode = gameCode /\ ch \notin closed
        to == Visit({ch \in DOMAIN conns : Keep(ch)})
    IN  IF ~Has(gs, gameCode) THEN <<>>
        ELSE [i \in 1..Len(to) |-> Msg(to[i], type, Null, Null, Null)]

broadcast(gs, conns, gameCode, type, excludeConnection) ==
    LET Keep(ch) == /\ ch # excludeConnection
                    /\ conns[ch].gameCode = gameCode
                    /\ ch \notin closed
        to == Visit({ch \in DOMAIN conns : Keep(ch)})
    IN  IF ~Has(gs, gameCode) THEN <<>>
        ELSE [i \in 1..Len(to) |-> Msg(to[i], type, Null, Null, Null)]

sendToHost(gs, gameCode, type, playerId, teamName) ==
    IF /\ Has(gs, gameCode)
       /\ gs[gameCode].hostConnection # Null
       /\ gs[gameCode].hostConnection \notin closed
    THEN <<Msg(gs[gameCode].hostConnection, type, Null, playerId, teamName)>>
    ELSE <<>>

\* the forEach of handlePlayerBuzz, handleClearPlayerBuzz, handleClearLastBuzz
\* and handleScoreUpdated: the player channels bound to the team
sendToTeam(conns, gameCode, teamName, type, text, exceptPlayer) ==
    LET Keep(ch) == /\ conns[ch].gameCode = gameCode
                    /\ conns[ch].type = "player"
                    /\ conns[ch].teamName = teamName
                    /\ conns[ch].playerId # exceptPlayer
        to == Visit({ch \in DOMAIN conns : Keep(ch)})
    IN  [i \in 1..Len(to) |-> Msg(to[i], type, text, conns[to[i]].playerId, Null)]

\* ws.send on a channel that is not OPEN throws: the handler stops at the
\* first such send, and the catch of ws.on('message') answers the sender.
FirstClosed(msgs) ==
    IF \E i \in 1..Len(msgs) : msgs[i].to \in closed
    THEN CHOOSE i \in 1..Len(msgs) :
            /\ msgs[i].to \in closed
            /\ \A j \in 1..(i - 1) : msgs[j].to \notin closed
    ELSE 0

InvalidFormat(ws) == Msg(ws, "ERROR", "Invalid message format", Null, Null)

\* the messages a message handler gets out, `msgs` being its sends in order
Deliver(msgs, ws) ==
    IF FirstClosed(msgs) = 0 THEN msgs
    ELSE SubSeq(msgs, 1, FirstClosed(msgs) - 1) \o <<InvalidFormat(ws)>>

\* ------------------------------------------------------------------ persistence
\* Array.from of a set of values: the values in some order
ArrayFrom(S) ==
    CHOOSE q \in [1..Cardinality(S) -> S] : {q[i] : i \in 1..Cardinality(S)} = S

\* new Map(pairs), a later pair for a key replacing an earlier one
MapFrom(pairs) ==
    LET Last(k) == CHOOSE i \in 1..Len(pairs) :
                      /\ pairs[i][1] = k
                      /\ \A j \in (i + 1)..Len(pairs) : pairs[j][1] # k
    IN  [k \in {pairs[i][1] : i \in 1..Len(pairs)} |-> pairs[Last(k)][2]]

\* saveGameState's plainState: the fields of the session but its host
\* channel, the teams as the array of their values, the players as the
\* array of their entries, and the time the record expires
plainState(g) ==
    [ currentGame |-> g.currentGame,
      currentRound |-> g.currentRound,
      games |-> g.games,
      teams |-> ArrayFrom({g.teams[t] : t \in DOMAIN g.teams}),
      players |-> ArrayFrom({<<p, g.players[p]>> : p \in DOMAIN g.players}),
      buzzedPlayers |-> g.buzzedPlayers,
      scoringEnabled |-> g.scoringEnabled,
      gameStarted |-> g.gameStarted,
      gameEnded |-> g.gameEnded,
      createdAt |-> g.createdAt,
      expiresAt |-> now + fourHours ]

saveGameState(st, gameCode, g) == MapSet(st, gameCode, plainState(g))

\* the rebuilding of loadGameState that forgets the scoring flag
restoredFromWithoutFlags(data) == [GameState(Null) EXCEPT
    !.currentGame = data.currentGame,
    !.currentRound = data.currentRound,
    !.games = data.games,
    !.teams = MapFrom([i \in 1..Len(data.teams) |-> <<data.teams[i].name, data.teams[i]>>]),
    !.players = MapFrom(data.players),
    !.buzzedPlayers = data.buzzedPlayers,
    !.gameStarted = data.gameStarted,
    !.gameEnded = data.gameEnded,
    !.createdAt = data.createdAt]

\* the rebuilding of loadGameState: a new GameState (hostConnection null)
\* filled from the record, the teams keyed by their names
restoredFrom(data) == [GameState(Null) EXCEPT
    !.currentGame = data.currentGame,
    !.currentRound = data.currentRound,
    !.games = data.games,
    !.teams = MapFrom([i \in 1..Len(data.teams) |-> <<data.teams[i].name, data.teams[i]>>]),
    !.players = MapFrom(data.players),
    !.buzzedPlayers = data.buzzedPlayers,
    !.scoringEnabled = data.scoringEnabled,
    !.gameStarted = data.gameStarted,
    !.gameEnded = data.gameEnded,
    !.createdAt = data.createdAt]

\* the snapshot of a code in the store: <<>> when there is no record,
\* else the record alone
snapshot(st, gameCode) == IF Has(st, gameCode) THEN <<st[gameCode]>> ELSE <<>>

\* a load that rebuilds a record whatever its expiresAt
loadGameStateIgnoringExpiry(snap) ==
    IF snap = <<>> THEN <<>> ELSE <<restoredFrom(snap[1])>>

\* loadGameState on a snapshot: <<>> (null) when there is no record or the
\* record has expired, else the rebuilt session alone
loadGameState(snap) ==
    IF snap = <<>> THEN <<>>
    ELSE IF now > snap[1].expiresAt THEN <<>>
    ELSE <<restoredFrom(snap[1])>>

\* ------------------------------------------------------------------ handlers
Frame(out) == sent' = out

\* a handler that returns before doing anything
Dropped ==
    /\ Frame(<<>>)
    /\ UNCHANGED <<games, connections, closed, store, pending, timers, now>>

\* a requested code is taken as it is, resident or not
createdCodesAsRequested(gameCode, drawn) ==
    IF gameCode # Null THEN {gameCode} ELSE drawn \ DOMAIN games

\* message.gameCode || generateGameCode(), then the loop that draws again
\* while the code is resident: a requested code that is free is kept, any
\* other outcome is a code drawn by generateGameCode that is not resident.
\* `drawn` are the codes generateGameCode can return.
createdCodes(gameCode, drawn) ==
    IF gameCode # Null /\ ~Has(games, gameCode)
    THEN {gameCode}
    ELSE drawn \ DOMAIN games

\* db.ref(`games/${gameCode}`).set(plainState) as it goes out to the store
dbSet(gameCode) == Msg("store", "SET", gameCode, Null, Null)

\* games.set, saveGameState, connections.set, ws.send, in that order
handleCreateGame(ws, gameCode, drawn) ==
    \E gc \in createdCodes(gameCode, drawn) :
        /\ games' = MapSet(games, gc, GameState(ws))
        /\ store' = saveGameState(store, gc, GameState(ws))
        /\ connections' = MapSet(connections, ws, HostInfo(gc))
        /\ Frame(<<dbSet(gc), Msg(ws, "GAME_CREATED", gc, Null, Null)>>)
        /\ UNCHANGED <<closed, pending, timers, now>>

\* finishJoin, and the same statements repeated after it in handleJoinGame
joinSends(gs, ws, gameCode, playerId, teamName) ==
    <<Msg(ws, "GAME_JOINED", gameCode, playerId, teamName)>>
    \o sendToHost(gs, gameCode, "PLAYER_JOINED", playerId, teamName)

handleJoinGame(ws, gameCode, playerId, teamName, isManager) ==
    IF Has(games, gameCode)
        THEN \* finishJoin(), then the statements after it: both run
             LET g1 == addPlayer(games[gameCode], playerId, teamName, isManager)
                 g2 == addPlayer(g1, playerId, teamName, isManager)
                 gs == MapSet(games, gameCode, g2)
             IN  /\ games' = gs
                 /\ connections' = MapSet(connections, ws,
                                          PlayerInfo(gameCode, playerId, teamName))
                 /\ Frame(joinSends(gs, ws, gameCode, playerId, teamName)
                              \o joinSends(gs, ws, gameCode, playerId, teamName))
                 /\ UNCHANGED <<closed, store, pending, timers, now>>
        ELSE \* loadGameState is started; game.addPlayer on undefined throws
             /\ Len(pending) < MaxPending
             /\ pending' = Append(pending,
                    [ws |-> ws, gameCode |-> gameCode, playerId |-> playerId,
                     teamName |-> teamName, isManager |-> isManager,
                     data |-> snapshot(store, gameCode)])
             /\ Frame(<<InvalidFormat(ws)>>)
             /\ UNCHANGED <<games, connections, closed, store, timers, now>>

\* the then() of loadGameState in handleJoinGame, for the i-th load in
\* flight; the read of the store is served when the load was started or
\* when it resolves
loadResolved(i) ==
    LET j == pending[i]
        rest == SubSeq(pending, 1, i - 1) \o SubSeq(pending, i + 1, Len(pending))
    IN  \E snap \in {j.data, snapshot(store, j.gameCode)} :
        LET restored == loadGameState(snap)
        IN  /\ pending' = rest
            /\ IF restored = <<>>
               THEN /\ Frame(IF j.ws \in closed THEN <<>>
                                 ELSE <<Msg(j.ws, "ERROR", "Game not found", Null, Null)>>)
                    /\ UNCHANGED <<games, connections>>
               ELSE LET g1 == addPlayer(restored[1], j.playerId, j.teamName, j.isManager)
                        gs == MapSet(games, j.gameCode, g1)
                    IN  /\ games' = gs
                        /\ connections' = MapSet(connections, j.ws,
                                     PlayerInfo(j.gameCode, j.playerId, j.teamName))
                        /\ Frame(IF j.ws \in closed THEN <<>>
                                     ELSE joinSends(gs, j.ws, j.gameCode, j.playerId, j.teamName))
            /\ UNCHANGED <<closed, store, timers, now>>

\* the guard every host-only handler starts with
hostGuard(ws, gameCode) == Has(games, gameCode) /\ isHost(ws)

\* a host-only handler that changes the session to g and broadcasts `type`
\* to everyone bound to the code but the sender
hostBroadcast(type, ws, gameCode, g) ==
    LET gs == MapSet(games, gameCode, g)
    IN  /\ games' = gs
        /\ Frame(Deliver(broadcast(gs, connections, gameCode, type, ws), ws))
        /\ UNCHANGED <<connections, closed, store, pending, timers, now>>

handleGameStarted(ws, gameCode, gameList, currentGame, currentRound) ==
    IF ~hostGuard(ws, gameCode)
    THEN Dropped
    ELSE hostBroadcast("GAME_STARTED", ws, gameCode,
            [games[gameCode] EXCEPT !.gameStarted = TRUE,
                                    !.games = gameList,
                                    !.currentGame = currentGame,
                                    !.currentRound = currentRound])

\* a round update that leaves scoring as it is
handleRoundUpdateKeepsScoring(ws, gameCode, currentGame, currentRound) ==
    IF ~hostGuard(ws, gameCode)
    THEN Dropped
    ELSE hostBroadcast("ROUND_UPDATE", ws, gameCode,
            [games[gameCode] EXCEPT !.currentGame = currentGame,
                                    !.currentRound = currentRound])

handleRoundUpdate(ws, gameCode, currentGame, currentRound) ==
    IF ~hostGuard(ws, gameCode)
    THEN Dropped
    ELSE hostBroadcast("ROUND_UPDATE", ws, gameCode,
            [games[gameCode] EXCEPT !.currentGame = currentGame,
                                    !.currentRound = currentRound,
                                    !.scoringEnabled = FALSE])

\* a buzz that is served only from the channel bound as the player
handlePlayerBuzzOfOwner(ws, gameCode, playerId, teamName) ==
    /\ games' = IF /\ Has(games, gameCode)
                   /\ Has(connections, ws)
                   /\ connections[ws].playerId = playerId
                THEN MapSet(games, gameCode, handleBuzz(games[gameCode], playerId).game)
                ELSE games
    /\ Frame(<<>>)
    /\ UNCHANGED <<connections, closed, store, pending, timers, now>>

handlePlayerBuzz(ws, gameCode, playerId, teamName) ==
    IF ~Has(games, gameCode)
        THEN /\ Frame(<<Msg(ws, "BUZZ_RESPONSE", "Game not found", Null, Null)>>)
             /\ UNCHANGED <<games, connections, closed, store, pending, timers, now>>
        ELSE LET r == handleBuzz(games[gameCode], playerId)
                 gs == MapSet(games, gameCode, r.game)
                 reply == Msg(ws, "BUZZ_RESPONSE",
                              IF r.success THEN "Buzzed in!"
                              ELSE "Team already buzzed or game not started",
                              playerId, Null)
                 fanout == sendToHost(gs, gameCode, "PLAYER_BUZZED", playerId, teamName)
                           \o sendToTeam(connections, gameCode, teamName, "BUZZ_RESPONSE",
                                         "Your teammate beat you to it!", playerId)
             IN  /\ games' = gs
                 /\ Frame(Deliver(<<reply>> \o (IF r.success THEN fanout ELSE <<>>), ws))
                 /\ UNCHANGED <<connections, closed, store, pending, timers, now>>

handleClearBuzzers(ws, gameCode) ==
    IF ~hostGuard(ws, gameCode)
    THEN Dropped
    ELSE hostBroadcast("CLEAR_BUZZERS", ws, gameCode,
            [games[gameCode] EXCEPT !.buzzedPlayers = <<>>])

\* buzzedPlayers.findIndex(buzz => buzz.playerId === playerId), 0 for -1
buzzIndex(q, playerId) ==
    IF \E i \in 1..Len(q) : q[i].playerId = playerId
    THEN CHOOSE i \in 1..Len(q) :
            /\ q[i].playerId = playerId
            /\ \A j \in 1..(i - 1) : q[j].playerId # playerId
    ELSE 0

\* splice(i, 1)
spliceOut(q, i) == SubSeq(q, 1, i - 1) \o SubSeq(q, i + 1, Len(q))

handleClearPlayerBuzz(ws, gameCode, playerId) ==
    IF ~hostGuard(ws, gameCode) THEN Dropped
        ELSE LET q == games[gameCode].buzzedPlayers
                 i == buzzIndex(q, playerId)
             IN  IF i = 0 THEN Dropped
                 ELSE /\ games' = [games EXCEPT ![gameCode].buzzedPlayers = spliceOut(q, i)]
                      /\ Frame(Deliver(sendToTeam(connections, gameCode, q[i].teamName,
                                                      "CLEAR_BUZZERS", Null, Null), ws))
                      /\ UNCHANGED <<connections, closed, store, pending, timers, now>>

\* a clear that takes the oldest record of the queue instead of the newest
handleClearLastBuzzOldest(ws, gameCode) ==
    IF ~hostGuard(ws, gameCode) THEN Dropped
        ELSE LET q == games[gameCode].buzzedPlayers
             IN  IF Len(q) = 0 THEN Dropped
                 ELSE /\ games' = [games EXCEPT ![gameCode].buzzedPlayers = Tail(q)]
                      /\ Frame(Deliver(
                            sendToHost(games, gameCode, "BUZZ_CLEARED",
                                       q[1].playerId, q[1].teamName), ws))
                      /\ UNCHANGED <<connections, closed, store, pending, timers, now>>

\* the CLEAR_LAST_BUZZ variant of the protocol
handleClearLastBuzz(ws, gameCode) ==
    IF ~hostGuard(ws, gameCode) THEN Dropped
        ELSE LET q == games[gameCode].buzzedPlayers
                 clearedBuzz == q[Len(q)]
                 gs == [games EXCEPT ![gameCode].buzzedPlayers = SubSeq(q, 1, Len(q) - 1)]
             IN  IF Len(q) = 0 THEN Dropped
                 ELSE /\ games' = gs
                      /\ Frame(Deliver(
                            sendToHost(gs, gameCode, "BUZZ_CLEARED",
                                       clearedBuzz.playerId, clearedBuzz.teamName)
                            \o sendToTeam(connections, gameCode, clearedBuzz.teamName,
                                          "CLEAR_BUZZERS", Null, Null), ws))
                      /\ UNCHANGED <<connections, closed, store, pending, timers, now>>

handleEnableScoring(ws, gameCode) ==
    IF ~hostGuard(ws, gameCode)
    THEN Dropped
    ELSE hostBroadcast("ENABLE_SCORING", ws, gameCode,
            [games[gameCode] EXCEPT !.scoringEnabled = TRUE])

\* ------------------------------------------------------------------ scores
\* A roundScores array: position i + 1 holds index i, <<n>> for the score n
\* and <<>> for a slot never written.
RECURSIVE roundsBefore(_, _)
\* the loop of handleSubmitScore: the round counts of the games before gameNum
roundsBefore(gameList, gameNum) ==
    IF gameNum <= 1 THEN 0
    ELSE roundsBefore(gameList, gameNum - 1)
         + (IF gameNum - 1 <= Len(gameList) THEN gameList[gameNum - 1][2] ELSE 0)

\* an index that counts rounds from 1
roundIndexOfOneBased(gameList, gameNum, round) == roundsBefore(gameList, gameNum) + round

roundIndexOf(gameList, gameNum, round) == roundsBefore(gameList, gameNum) + (round - 1)

\* a write that pushes the score behind the last slot
writeScoreAtEnd(roundScores, roundIndex, score) == Append(roundScores, <<score>>)

\* roundScores[roundIndex] = score
writeScore(roundScores, roundIndex, score) ==
    [i \in 1..(IF roundIndex + 1 > Len(roundScores) THEN roundIndex + 1 ELSE Len(roundScores)) |->
        IF i = roundIndex + 1 THEN <<score>>
        ELSE IF i <= Len(roundScores) THEN roundScores[i] ELSE <<>>]

RECURSIVE sumScores(_)
\* roundScores.reduce((sum, s) => sum + (s || 0), 0)
sumScores(roundScores) ==
    IF roundScores = <<>> THEN 0
    ELSE (IF Head(roundScores) = <<>> THEN 0 ELSE Head(roundScores)[1])
         + sumScores(Tail(roundScores))

\* a test that lets any known player submit
mayScoreAnyPlayer(g, playerId, teamName) == Has(g.players, playerId)

\* a manager test that also asks for scoring to be enabled
mayScoreWhenEnabled(g, playerId, teamName) ==
    Has(g.players, playerId) /\ g.teams[teamName].manager = playerId /\ g.scoringEnabled

\* the manager test of handleSubmitScore
mayScore(g, playerId, teamName) ==
    Has(g.players, playerId) /\ g.teams[teamName].manager = playerId

handleSubmitScore(ws, gameCode, playerId, teamName, gameNum, round, score) ==
    IF ~Has(games, gameCode) THEN Dropped
        ELSE IF ~Has(games[gameCode].teams, teamName) THEN Dropped
        ELSE IF ~mayScore(games[gameCode], playerId, teamName)
        THEN /\ Frame(<<Msg(ws, "ERROR", "Only team managers can submit scores",
                                Null, Null)>>)
             /\ UNCHANGED <<games, connections, closed, store, pending, timers, now>>
        ELSE LET g == games[gameCode]
                 roundIndex == roundIndexOf(g.games, gameNum, round)
                 scores == writeScore(g.teams[teamName].roundScores, roundIndex, score)
                 gs == [games EXCEPT ![gameCode].teams[teamName].roundScores = scores,
                                     ![gameCode].teams[teamName].totalScore = sumScores(scores)]
                 total == sumScores(scores)
             IN  /\ games' = gs
                 \* SCORE_SUBMITTED: score, roundIndex, totalScore;
                 \* SCORE_CONFIRMED: score, totalScore
                 /\ Frame(WithNums(sendToHost(gs, gameCode, "SCORE_SUBMITTED", Null, teamName),
                                   <<score, roundIndex, total>>)
                          \o WithNums(<<Msg(ws, "SCORE_CONFIRMED", Null, Null, Null)>>,
                                      <<score, total>>))
                 /\ UNCHANGED <<connections, closed, store, pending, timers, now>>

handleManagerChanged(ws, gameCode, teamName, newManagerId) ==
    IF ~hostGuard(ws, gameCode) THEN Dropped
        ELSE IF ~Has(games[gameCode].teams, teamName) THEN Dropped
        ELSE hostBroadcast("MANAGER_CHANGED", ws, gameCode,
                [games[gameCode] EXCEPT
                    !.teams[teamName].manager = newManagerId,
                    !.teams[teamName].members = MarkManager(@, newManagerId)])

handleScoreUpdated(ws, gameCode, teamName, scores, totalScore) ==
    IF ~hostGuard(ws, gameCode) THEN Dropped
        ELSE IF ~Has(games[gameCode].teams, teamName) THEN Dropped
        ELSE /\ games' = [games EXCEPT ![gameCode].teams[teamName].roundScores = scores,
                                       ![gameCode].teams[teamName].totalScore = totalScore]
             /\ Frame(Deliver(WithNums(sendToTeam(connections, gameCode, teamName,
                                                      "SCORE_UPDATED", Null, Null),
                                       <<totalScore>>), ws))
             /\ UNCHANGED <<connections, closed, store, pending, timers, now>>

handleRevealFinalScores(ws, gameCode) ==
    IF ~hostGuard(ws, gameCode)
    THEN Dropped
    ELSE hostBroadcast("REVEAL_FINAL_SCORES", ws, gameCode,
            [games[gameCode] EXCEPT !.gameEnded = TRUE])

\* ------------------------------------------------------------------ leaving
handleLeaveGame(ws, gameCode, playerId) ==
    IF ~Has(connections, ws) THEN Dropped
        ELSE LET gs == IF Has(games, gameCode)
                       THEN MapSet(games, gameCode, removePlayer(games[gameCode], playerId))
                       ELSE games
             IN  /\ games' = gs
                 /\ connections' = MapDelete(connections, ws)
                 /\ Frame(sendToHost(gs, gameCode, "PLAYER_LEFT", playerId, Null))
                 /\ UNCHANGED <<closed, store, pending, timers, now>>

\* a disconnect that takes the player off the roster as a leave does
disconnectedFromRoster(g, playerId) == removePlayer(g, playerId)

\* the player branch of handleDisconnection: the player's buzz records go
disconnectedFrom(g, playerId) ==
    LET NotHis(b) == b.playerId # playerId
    IN  [g EXCEPT !.buzzedPlayers = SelectSeq(@, NotHis)]

\* handleDisconnection(ws), with `shut` the channels that are not OPEN when
\* it runs
handleDisconnection(ws, shut) ==
    /\ closed' = shut
    /\ IF ~Has(connections, ws) THEN
            /\ Frame(<<>>)
            /\ UNCHANGED <<games, connections, store, pending, timers, now>>
       ELSE IF ~Has(games, connections[ws].gameCode) THEN
            /\ Frame(<<>>)
            /\ UNCHANGED <<games, connections, store, pending, timers, now>>
       ELSE LET connInfo == connections[ws]
                gameCode == connInfo.gameCode
                gs == [games EXCEPT ![gameCode] = disconnectedFrom(@, connInfo.playerId)]
                Open(ch) == connections[ch].gameCode = gameCode /\ ch \notin shut
                to == Visit({ch \in DOMAIN connections : Open(ch)})
            IN  IF connInfo.type = "host"
                THEN \* broadcast HOST_DISCONNECTED, then setTimeout(games.delete)
                     /\ Len(timers[gameCode]) < MaxTimers
                     /\ timers' = [timers EXCEPT ![gameCode] = Append(@, 0)]
                     /\ connections' = MapDelete(connections, ws)
                     /\ Frame([i \in 1..Len(to) |->
                                     Msg(to[i], "HOST_DISCONNECTED", Null, Null, Null)])
                     /\ UNCHANGED <<games, store, pending, now>>
                ELSE /\ games' = gs
                     /\ connections' = MapDelete(connections, ws)
                     /\ Frame(IF gs[gameCode].hostConnection \in (Channels \ shut)
                                  THEN <<Msg(gs[gameCode].hostConnection,
                                             "PLAYER_DISCONNECTED", Null,
                                             connInfo.playerId, Null)>>
                                  ELSE <<>>)
                     /\ UNCHANGED <<store, pending, timers, now>>

handlePlayerDisconnect(ws) ==
    handleDisconnection(ws, closed)

\* ws.on('close') and ws.on('error')
channelClosed(ws) ==
    handleDisconnection(ws, closed \cup {ws})

\* a timer that fires without removing the session
abandonmentTimerSparesSession(gameCode) ==
    /\ timers[gameCode] # <<>>
    /\ timers' = [timers EXCEPT ![gameCode] = Tail(@)]
    /\ Frame(<<>>)
    /\ UNCHANGED <<games, connections, closed, store, pending, now>>

\* the callback of the setTimeout of handleDisconnection
abandonmentTimer(gameCode) ==
    /\ timers[gameCode] # <<>>
    /\ timers' = [timers EXCEPT ![gameCode] = Tail(@)]
    /\ games' = MapDelete(games, gameCode)
    /\ Frame(<<>>)
    /\ UNCHANGED <<connections, closed, store, pending, now>>

\* the callback of the hourly setInterval: sessions older than an hour go
cleanupSweep ==
    /\ games' = [c \in {x \in DOMAIN games : ~(now - games[x].createdAt > oneHour)}
                    |-> games[c]]
    /\ Frame(<<>>)
    /\ UNCHANGED <<connections, closed, store, pending, timers, now>>

\* an hour strikes; the five minutes of an abandonment timer span at most
\* one such stroke
clockTick ==
    /\ now < MaxClock
    /\ \A c \in Codes : \A i \in 1..Len(timers[c]) : timers[c][i] = 0
    /\ now' = now + 1
    /\ timers' = [c \in Codes |-> [i \in 1..Len(timers[c]) |-> 1]]
    /\ Frame(<<>>)
    /\ UNCHANGED <<games, connections, closed, store, pending>>

handleGetTeams(ws, gameCode) ==
    /\ Frame(IF Has(games, gameCode)
             THEN <<Msg(ws, "TEAMS_LIST", Null, Null, Null)>>
             ELSE <<Msg(ws, "ERROR", "Game not found", Null, Null)>>)
    /\ UNCHANGED <<games, connections, closed, store, pending, timers, now>>

\* the default case of handleMessage
unknownType(ws) ==
    /\ Frame(<<Msg(ws, "ERROR", "Unknown message type", Null, Null)>>)
    /\ UNCHANGED <<games, connections, closed, store, pending, timers, now>>

\* JSON.parse throws in ws.on('message')
parseError(ws) ==
    /\ Frame(<<InvalidFormat(ws)>>)
    /\ UNCHANGED <<games, connections, closed, store, pending, timers, now>>

\* ------------------------------------------------------------------ system
Init ==
    /\ games = EmptyMap
    /\ connections = EmptyMap
    /\ closed = {}
    /\ store = EmptyMap
    /\ pending = <<>>
    /\ timers = [c \in Codes |-> <<>>]
    /\ sent = <<>>
    /\ now = 0

\* ------------------------------------------------------------------ inputs
Booleans == {TRUE, FALSE}
GameLists == { <<<<"A", 3>>, <<"B", 2>>>> }

\* The messages of the lobby, sent over the channels W about the codes C,
\* the players P and the teams T.
Create(W, C, drawn) ==
    \E ws \in W \ closed, c \in C : handleCreateGame(ws, c, drawn)

\* a join of a game that is resident
Join(W, C, P, T, M) ==
    \E ws \in W \ closed, c \in C, p \in P, t \in T, m \in M :
        Has(games, c) /\ handleJoinGame(ws, c, p, t, m)

\* a join of any code, resident or not
JoinAny(W, C, P, T, M) ==
    \E ws \in W \ closed, c \in C, p \in P, t \in T, m \in M :
        handleJoinGame(ws, c, p, t, m)

Leave(W, C, P) ==
    \E ws \in W \ closed, c \in C, p \in P : handleLeaveGame(ws, c, p)

Disconnect(W) ==
    \E ws \in W \ closed : handlePlayerDisconnect(ws)

Close(W) ==
    \E ws \in W \ closed : channelClosed(ws)

Start(W, C, GL) ==
    \E ws \in W \ closed, c \in C, gl \in GL : handleGameStarted(ws, c, gl, 1, 1)

Buzz(W, C, P, T) ==
    \E ws \in W \ closed, c \in C, p \in P, t \in T : handlePlayerBuzz(ws, c, p, t)

ManagerChanged(W, C, P, T) ==
    \E ws \in W \ closed, c \in C, t \in T, p \in P : handleManagerChanged(ws, c, t, p)

RoundUpdate(W, C) ==
    \E ws \in W \ closed, c \in C : handleRoundUpdate(ws, c, 1, 2)

EnableScoring(W, C) ==
    \E ws \in W \ closed, c \in C : handleEnableScoring(ws, c)

ScoreUpdated(W, C, T) ==
    \E ws \in W \ closed, c \in C, t \in T : handleScoreUpdated(ws, c, t, <<<<50>>>>, 50)

\* SCORE_UPDATED carrying any of the corrections U, each a scores array and
\* a total
ScoreUpdatedWith(W, C, T, U) ==
    \E ws \in W \ closed, c \in C, t \in T, u \in U :
        handleScoreUpdated(ws, c, t, u.scores, u.totalScore)

Reveal(W, C) ==
    \E ws \in W \ closed, c \in C : handleRevealFinalScores(ws, c)

LoadResolved ==
    \E i \in 1..Len(pending) : loadResolved(i)

Timer(C) ==
    \E c \in C : abandonmentTimer(c)

Sweep == cleanupSweep

Tick == clockTick

SubmitScore(W, C, P, T, GN, R, S) ==
    \E ws \in W \ closed, c \in C, p \in P, t \in T, gn \in GN, r \in R, sc \in S :
        handleSubmitScore(ws, c, p, t, gn, r, sc)

ClearAll(W, C) ==
    \E ws \in W \ closed, c \in C : handleClearBuzzers(ws, c)

ClearPlayer(W, C, P) ==
    \E ws \in W \ closed, c \in C, p \in P : handleClearPlayerBuzz(ws, c, p)

ClearLast(W, C) ==
    \E ws \in W \ closed, c \in C : handleClearLastBuzz(ws, c)

\* ------------------------------------------------------------------ Spec
\* One game, the host on w1 and the players on w2, which may close: the
\* buzzer race. Joins do not ask for the manager role here (SpecRoster has
\* those).
TheCode == {"123456"}
HostCh == {"w1"}
PlayerCh == {"w2"}

Next ==
    \/ Create(HostCh, TheCode, TheCode)
    \/ Join(PlayerCh, TheCode, TwoPlayers, TeamNames, {FALSE})
    \/ Leave(PlayerCh, TheCode, TwoPlayers)
    \/ Disconnect(PlayerCh)
    \/ Close(PlayerCh)
    \/ Start(HostCh, TheCode, GameLists)
    \/ Buzz(PlayerCh, TheCode, TwoPlayers, TeamNames)
    \/ ClearAll(HostCh, TheCode)
    \/ ClearPlayer(HostCh, TheCode, TwoPlayers)
    \/ ClearLast(HostCh, TheCode)

Spec == Init /\ [][Next]_vars

\* ------------------------------------------------------------------ the buzzer race
G == games["123456"]
Resident == Has(games, "123456")

\* the reply of handlePlayerBuzz to the sender, first of the messages sent
BuzzReplied == sent' # <<>> /\ sent'[1].type = "BUZZ_RESPONSE"
BuzzSucceeded == sent'[1].text = "Buzzed in!"

\* some player whose current team is p's has a record in the queue
TeammatePending(g, p) ==
    \E q \in DOMAIN g.players :
        /\ g.players[q].teamName = g.players[p].teamName
        /\ \E i \in 1..Len(g.buzzedPlayers) : g.buzzedPlayers[i].playerId = q

\* C1: in a started session a buzz of a known player p succeeds and appends
\* exactly the record (p, p's team) at the end of the queue when no player of
\* p's current team has a pending record; otherwise it is refused and the
\* queue is left as it was.
BuzzContract ==
    [][\A p \in PlayerIds :
        (/\ BuzzReplied
         /\ sent'[1].playerId = p
         /\ Resident
         /\ Has(G.players, p)
         /\ G.gameStarted)
        => IF ~TeammatePending(G, p)
           THEN /\ BuzzSucceeded
                /\ games'["123456"].buzzedPlayers =
                      Append(G.buzzedPlayers,
                             [playerId |-> p, teamName |-> G.players[p].teamName])
           ELSE /\ ~BuzzSucceeded
                /\ games'["123456"].buzzedPlayers = G.buzzedPlayers]_vars

\* P1 and P2 are on the same team, P1's record is pending, P2 was just refused
BuzzContractWitness ==
    /\ Resident
    /\ G.gameStarted
    /\ Has(G.players, "P1") /\ Has(G.players, "P2")
    /\ G.players["P1"].teamName = "Red" /\ G.players["P2"].teamName = "Red"
    /\ G.buzzedPlayers = <<[playerId |-> "P1", teamName |-> "Red"]>>
    /\ sent # <<>>
    /\ sent[1] = Msg("w2", "BUZZ_RESPONSE", "Team already buzzed or game not started",
                     "P2", Null)

\* C2: in every reachable state the buzz queue of a session holds at most
\* one record per team name.
BuzzQueueOnePerTeam ==
    \A c \in DOMAIN games :
        \A i, j \in 1..Len(games[c].buzzedPlayers) :
            i # j => games[c].buzzedPlayers[i].teamName # games[c].buzzedPlayers[j].teamName

\* C4: while started is false (or no session is resident) a buzz is refused
\* and the queue is left as it was.
BuzzRefusedBeforeStart ==
    [][(BuzzReplied /\ (~Resident \/ ~G.gameStarted))
        => /\ ~BuzzSucceeded
           /\ UNCHANGED games]_vars

\* a known player was just refused in a session that has not started
BuzzRefusedBeforeStartWitness ==
    /\ Resident
    /\ ~G.gameStarted
    /\ Has(G.players, "P1") /\ Has(G.players, "P2")
    /\ sent # <<>>
    /\ sent[1] = Msg("w2", "BUZZ_RESPONSE", "Team already buzzed or game not started",
                     "P1", Null)

InLobby == \A c \in DOMAIN games : ~games[c].gameStarted

NextFixedRoster ==
    \/ Create(HostCh, TheCode, TheCode)
    \/ InLobby /\ Join(PlayerCh, TheCode, TwoPlayers, TeamNames, {FALSE})
    \/ InLobby /\ Leave(PlayerCh, TheCode, TwoPlayers)
    \/ Start(HostCh, TheCode, GameLists)
    \/ Buzz(PlayerCh, TheCode, TwoPlayers, TeamNames)
    \/ ClearAll(HostCh, TheCode)
    \/ ClearPlayer(HostCh, TheCode, TwoPlayers)
    \/ ClearLast(HostCh, TheCode)

SpecFixedRoster == Init /\ [][NextFixedRoster]_vars

\* the team names of the records of queue q
QueueTeams(q) == {q[i].teamName : i \in 1..Len(q)}

\* C3: with the roster fixed, after any sequence of buzzes and clear
\* operations no two records of the queue carry the same team name.
FixedRosterNoTeamTwice ==
    \A c \in DOMAIN games :
        Cardinality(QueueTeams(games[c].buzzedPlayers)) = Len(games[c].buzzedPlayers)

\* both teams have a pending record, the second one just admitted, in a
\* session whose roster holds a player listed by both teams
FixedRosterWitness ==
    /\ Resident
    /\ Len(G.buzzedPlayers) = 2
    /\ sent # <<>> /\ sent[1].type = "BUZZ_RESPONSE" /\ sent[1].text = "Buzzed in!"
    /\ \E p \in TwoPlayers : \A t \in TeamNames :
          Has(G.teams, t) /\ IsMember(G.teams[t], p)

\* ------------------------------------------------------------------ SpecRoster
\* The roster of one game under joins (with and without the manager role,
\* rejoins and joins under another team included) and leaves; P3 is the plain
\* third member of Red.
NextRoster ==
    \/ Create(HostCh, TheCode, TheCode)
    \/ Join(PlayerCh, TheCode, TwoPlayers, TeamNames, Booleans)
    \/ Join(PlayerCh, TheCode, {"P3"}, {"Red"}, {FALSE})
    \/ Leave(PlayerCh, TheCode, PlayerIds)

SpecRoster == Init /\ [][NextRoster]_vars

\* the positions of the members of a team whose isManager flag is set
Flagged(team) == {i \in 1..Len(team.members) : team.members[i].isManager}

\* C7: under addPlayer and removePlayer every non-empty team has exactly one
\* member whose isManager flag is true.
OneManagerFlagPerTeam ==
    \A c \in DOMAIN games : \A t \in DOMAIN games[c].teams :
        games[c].teams[t].members # <<>> => Cardinality(Flagged(games[c].teams[t])) = 1

\* P1 has just left Red, whose first remaining member P2 holds the flag
\* with P3 behind
OneManagerFlagWitness ==
    /\ Resident
    /\ Has(G.teams, "Red")
    /\ G.teams["Red"].members = <<[playerId |-> "P2", isManager |-> TRUE],
                                  [playerId |-> "P3", isManager |-> FALSE]>>
    /\ ~Has(G.players, "P1")
    /\ sent = <<Msg("w1", "PLAYER_LEFT", Null, "P1", Null)>>

\* C9: every player of the player mapping is a member of exactly one team,
\* the team its entry names; every member of a team is in the player
\* mapping; and a team is in the teams mapping iff it has a member.
MembersOf(g, p) == {t \in DOMAIN g.teams : IsMember(g.teams[t], p)}

OneTeamPerPlayer ==
    \A c \in DOMAIN games :
        /\ \A p \in DOMAIN games[c].players :
              MembersOf(games[c], p) = {games[c].players[p].teamName}
        /\ \A p \in PlayerIds \ DOMAIN games[c].players : MembersOf(games[c], p) = {}
        /\ \A t \in DOMAIN games[c].teams : games[c].teams[t].members # <<>>

\* ------------------------------------------------------------------ SpecManagers
\* SpecRoster with the host's MANAGER_CHANGED.
NextManagers ==
    \/ Create(HostCh, TheCode, TheCode)
    \/ Join(PlayerCh, TheCode, TwoPlayers, TeamNames, Booleans)
    \/ Leave(PlayerCh, TheCode, TwoPlayers)
    \/ ManagerChanged(HostCh, TheCode, PlayerIds, TeamNames)

SpecManagers == Init /\ [][NextManagers]_vars

\* C8: in every reachable state each non-empty team has exactly one member
\* whose isManager flag is true, and that member is the team's manager.
ManagerIsTheFlaggedMember ==
    \A c \in DOMAIN games : \A t \in DOMAIN games[c].teams :
        LET team == games[c].teams[t]
        IN  team.members # <<>> =>
              /\ Cardinality(Flagged(team)) = 1
              /\ \A i \in Flagged(team) : team.members[i].playerId = team.manager

\* ------------------------------------------------------------------ SpecAuth
\* Who may send a host's message: w1 creates the game 123456, w2 the game
\* 654321, w3 joins 123456 as P1 of Red, and each of the three sends every
\* host-only message about 123456.
OtherCode == {"654321"}
OtherHostCh == {"w2"}
GuestCh == {"w3"}

HostOnly(W, C) ==
    \/ Start(W, C, GameLists)
    \/ RoundUpdate(W, C)
    \/ ClearAll(W, C)
    \/ ClearPlayer(W, C, {"P1"})
    \/ ClearLast(W, C)
    \/ EnableScoring(W, C)
    \/ ManagerChanged(W, C, {"P2"}, {"Red"})
    \/ ScoreUpdated(W, C, {"Red"})
    \/ Reveal(W, C)

NextAuth ==
    \/ Create(HostCh, TheCode, TheCode)
    \/ Create(OtherHostCh, OtherCode, OtherCode)
    \/ Join(GuestCh, TheCode, {"P1"}, {"Red"}, {FALSE})
    \/ Buzz(GuestCh, TheCode, {"P1"}, {"Red"})
    \/ HostOnly(Channels, TheCode)

SpecAuth == Init /\ [][NextAuth]_vars

\* the channel's directory entry has role host for the code
HostOf(ws, c) ==
    /\ Has(connections, ws)
    /\ connections[ws].type = "host"
    /\ connections[ws].gameCode = c

\* C5: a host-only message naming code c changes no session and sends
\* nothing unless the sender's directory entry has role host for c.
HostOnlyNeedsHostOfCode ==
    [][\A ws \in Channels, c \in TheCode :
        (HostOnly({ws}, {c}) /\ ~HostOf(ws, c))
        => (UNCHANGED games /\ sent' = <<>>)]_vars

\* ------------------------------------------------------------------ SpecHosts
\* Two game codes and the channels w1 and w2, each of which may create a
\* game (asking for a code or not), start a game, ask to be disconnected,
\* or close, and w2 may join as P1 of Red; abandoned games are evicted by
\* their timers and restored by joins.
TwoChannels == {"w1", "w2"}

NextHosts ==
    \/ Create(TwoChannels, Codes \cup {Null}, Codes)
    \/ JoinAny(OtherHostCh, Codes, {"P1"}, {"Red"}, {FALSE})
    \/ LoadResolved
    \/ Start(TwoChannels, Codes, GameLists)
    \/ Disconnect(TwoChannels)
    \/ Close(TwoChannels)
    \/ Timer(Codes)

SpecHosts == Init /\ [][NextHosts]_vars

Rounds == {1}
GameNums == {1, 2}
Scores == {20, 50}

NextScores ==
    \/ Create(HostCh, TheCode, TheCode)
    \/ Start(HostCh, TheCode, GameLists)
    \/ Join(PlayerCh, TheCode, TwoPlayers, TeamNames, {FALSE})
    \/ Leave(PlayerCh, TheCode, TwoPlayers)
    \/ SubmitScore(PlayerCh, TheCode, TwoPlayers, TeamNames,
                   GameNums, Rounds, Scores)

SpecScores == Init /\ [][NextScores]_vars

Unauthorized(ws) == Msg(ws, "ERROR", "Only team managers can submit scores", Null, Null)

\* C10: a SUBMIT_SCORE whose playerId is not the manager of the named team
\* of a resident session is answered with the Unauthorized error, to the
\* sender alone, and changes no team's scores.
NonManagerScoreRefused ==
    [][\A ws \in PlayerCh, c \in TheCode, p \in TwoPlayers, t \in TeamNames,
          gn \in GameNums, r \in Rounds, sc \in Scores :
        (/\ Has(games, c)
         /\ Has(games[c].teams, t)
         /\ games[c].teams[t].manager # p
         /\ handleSubmitScore(ws, c, p, t, gn, r, sc))
        => /\ sent' = <<Unauthorized(ws)>>
           /\ \A u \in DOMAIN games[c].teams :
                 /\ Has(games'[c].teams, u)
                 /\ games'[c].teams[u].roundScores = games[c].teams[u].roundScores
                 /\ games'[c].teams[u].totalScore = games[c].teams[u].totalScore]_vars

\* Red holds a score, both players are in it, and a submission was just
\* refused
NonManagerScoreRefusedWitness ==
    /\ Resident
    /\ Has(G.teams, "Red")
    /\ G.teams["Red"].totalScore > 0
    /\ Len(G.teams["Red"].members) = 2
    /\ sent = <<Unauthorized("w2")>>

\* ------------------------------------------------------------------ SpecTotals
\* One game whose list the host sets to one game of three rounds, to two
\* games of three and two rounds, or to two games of two and three rounds;
\* P1 manages Red and submits for the first two rounds of either game, P2
\* manages Blue and submits 50 for its first round, and the host corrects
\* Red's scores.
AllGameLists ==
    { <<<<"A", 3>>>>, <<<<"A", 3>>, <<"B", 2>>>>, <<<<"B", 2>>, <<"A", 3>>>> }
TwoRounds == {1, 2}
ScoreUpdates ==
    { [scores |-> <<<<50>>>>, totalScore |-> 50],
      [scores |-> <<<<20>>, <<>>, <<50>>>>, totalScore |-> 20] }

NextTotals ==
    \/ Create(HostCh, TheCode, TheCode)
    \/ Start(HostCh, TheCode, AllGameLists)
    \/ Join(PlayerCh, TheCode, {"P1"}, {"Red"}, {FALSE})
    \/ Join(PlayerCh, TheCode, {"P2"}, {"Blue"}, {FALSE})
    \/ SubmitScore(PlayerCh, TheCode, {"P1"}, {"Red"}, GameNums, TwoRounds, Scores)
    \/ SubmitScore(PlayerCh, TheCode, {"P2"}, {"Blue"}, {1}, {1}, {50})
    \/ ScoreUpdatedWith(HostCh, TheCode, {"Red"}, ScoreUpdates)

SpecTotals == Init /\ [][NextTotals]_vars

\* the entries of a roundScores array that are defined
DefinedSlots(roundScores) == {i \in 1..Len(roundScores) : roundScores[i] # <<>>}

\* the sum of the defined entries, counted as the pairs (slot, unit below
\* its score)
DefinedSum(roundScores) ==
    Cardinality({<<i, k>> \in DefinedSlots(roundScores) \X (1..50) :
                    k <= roundScores[i][1]})

\* C11: in every reachable state the totalScore of every team is the sum of
\* the defined entries of its roundScores.
TotalIsSumOfRounds ==
    \A c \in DOMAIN games : \A t \in DOMAIN games[c].teams :
        games[c].teams[t].totalScore = DefinedSum(games[c].teams[t].roundScores)

\* the round counts of the games before game g, counted as the pairs (game,
\* round of that game)
RoundsOfEarlierGames(gameList, g) ==
    Cardinality({<<i, k>> \in (1..Len(gameList)) \X (1..3) :
                    i < g /\ k <= gameList[i][2]})

\* the index the claim gives for game g, round r
FlattenedIndex(gameList, g, r) == RoundsOfEarlierGames(gameList, g) + (r - 1)

\* a submission was just accepted: the confirmation is the last message out
ScoreConfirmed == sent' # <<>> /\ sent'[Len(sent')].type = "SCORE_CONFIRMED"

\* C12: an accepted submission for game g, round r writes the score at the
\* index sum of the round counts of games 1..g-1 plus (r-1), and reports
\* that index to the host.
ScoreWrittenAtFlattenedIndex ==
    [][\A t \in TeamNames, g \in GameNums, r \in TwoRounds, sc \in Scores :
        (/\ Resident
         /\ Has(G.teams, t)
         /\ handleSubmitScore("w2", "123456", G.teams[t].manager, t, g, r, sc)
         /\ ScoreConfirmed)
        => LET idx == FlattenedIndex(G.games, g, r)
           IN  /\ Len(games'["123456"].teams[t].roundScores) >= idx + 1
               /\ games'["123456"].teams[t].roundScores[idx + 1] = <<sc>>
               /\ sent'[1].type = "SCORE_SUBMITTED" /\ sent'[1].nums[2] = idx]_vars

\* with the games (A,3),(B,2), a score for game 2 round 2 was just written
\* at index 4
ScoreWrittenAtFlattenedIndexWitness ==
    /\ Resident
    /\ G.games = <<<<"A", 3>>, <<"B", 2>>>>
    /\ Has(G.teams, "Red")
    /\ Len(G.teams["Red"].roundScores) = 5
    /\ G.teams["Red"].roundScores[5] = <<50>>
    /\ Len(sent) = 2
    /\ sent[1].type = "SCORE_SUBMITTED" /\ sent[1].nums = <<50, 4, 50>>

\* C13: an accepted submission sets the slot at the flattened index to the
\* score, leaves every other slot of the team and every other team as they
\* were, sets totalScore to the sum of the defined round scores, and reports
\* the index and the total.
SubmitWritesOneSlot ==
    [][\A t \in TeamNames, g \in GameNums, r \in TwoRounds, sc \in Scores :
        (/\ Resident
         /\ Has(G.teams, t)
         /\ handleSubmitScore("w2", "123456", G.teams[t].manager, t, g, r, sc)
         /\ ScoreConfirmed)
        => LET idx == roundIndexOf(G.games, g, r)
               before == G.teams[t].roundScores
               after == games'["123456"].teams[t]
           IN  /\ Len(after.roundScores) = (IF Len(before) > idx THEN Len(before) ELSE idx + 1)
               /\ after.roundScores[idx + 1] = <<sc>>
               /\ \A i \in 1..Len(after.roundScores) :
                     i # idx + 1 =>
                        after.roundScores[i] = (IF i <= Len(before) THEN before[i] ELSE <<>>)
               /\ after.totalScore = DefinedSum(after.roundScores)
               /\ \A u \in DOMAIN G.teams \ {t} : games'["123456"].teams[u] = G.teams[u]
               /\ DOMAIN games'["123456"].teams = DOMAIN G.teams
               /\ sent' = <<[Msg("w1", "SCORE_SUBMITTED", Null, Null, t)
                                EXCEPT !.nums = <<sc, idx, after.totalScore>>],
                            [Msg("w2", "SCORE_CONFIRMED", Null, Null, Null)
                                EXCEPT !.nums = <<sc, after.totalScore>>]>>]_vars

\* 50 for round 1 and then 20 for round 2 of the single three-round game:
\* the totals 50 and then 70, with Blue's score standing
SubmitWritesOneSlotWitness ==
    /\ Resident
    /\ G.games = <<<<"A", 3>>>>
    /\ Has(G.teams, "Red") /\ Has(G.teams, "Blue")
    /\ G.teams["Red"].roundScores = <<<<50>>, <<20>>>>
    /\ G.teams["Red"].totalScore = 70
    /\ G.teams["Blue"].totalScore = 50
    /\ Len(sent) = 2
    /\ sent[1].nums = <<20, 1, 70>>
    /\ sent[2].nums = <<20, 70>>

\* C14: a restore that completes while a session for its code is resident
\* does not replace that session: the session keeps its host channel and
\* its players. (The restores looked at are those whose read sees the same
\* record whether it is served when the load starts or when it resolves.)
RestoreKeepsResidentSession ==
    [][\A i \in 1..Len(pending) :
        (/\ Has(games, pending[i].gameCode)
         /\ pending[i].data = snapshot(store, pending[i].gameCode)
         /\ loadResolved(i))
        => LET c == pending[i].gameCode
           IN  /\ Has(games', c)
               /\ games'[c].hostConnection = games[c].hostConnection
               /\ DOMAIN games[c].players \subseteq DOMAIN games'[c].players]_vars

\* ------------------------------------------------------------------ SpecEvict
\* One game code over the hours: w1 creates the game and may start it,
\* w3 joins as P1 of Red (restoring the game when it is not resident), w1's
\* channel closes, the abandonment timer and the hourly sweep evict, and
\* once w1 has closed w2 may create the game again.
NextEvict ==
    \/ Create(HostCh, TheCode, TheCode)
    \/ "w1" \in closed /\ Create(OtherHostCh, TheCode, TheCode)
    \/ JoinAny(GuestCh, TheCode, {"P1"}, {"Red"}, {FALSE})
    \/ LoadResolved
    \/ Start(HostCh, TheCode, GameLists)
    \/ Close(HostCh)
    \/ Timer(TheCode)
    \/ Sweep
    \/ Tick

SpecEvict == Init /\ [][NextEvict]_vars

\* C15: when the abandonment timer of a code fires while a host that bound
\* to the code after the close that set the timer holds the session, the
\* session stays in the registry.
StaleTimerSparesNewHost ==
    [][\A c \in TheCode :
        (/\ Has(games, c)
         /\ HostOf("w2", c)
         /\ games[c].hostConnection = "w2"
         /\ abandonmentTimer(c))
        => Has(games', c)]_vars

\* what a restore is to bring back: the teams with their scores, the buzz
\* queue, the game list, the cursor and the flags
Persisted(g) ==
    [ teams |-> g.teams, buzzedPlayers |-> g.buzzedPlayers, games |-> g.games,
      currentGame |-> g.currentGame, currentRound |-> g.currentRound,
      gameStarted |-> g.gameStarted, gameEnded |-> g.gameEnded,
      scoringEnabled |-> g.scoringEnabled ]

\* C16: when a session is evicted, what a load of its record that has not
\* expired rebuilds equals what the session had.
EvictedSessionRestorable ==
    [][\A c \in DOMAIN games :
        (c \notin DOMAIN games' /\ loadGameState(snapshot(store, c)) # <<>>)
        => Persisted(loadGameState(snapshot(store, c))[1]) = Persisted(games[c])]_vars

\* ------------------------------------------------------------------ SpecRoundTrip
\* The sessions that one game goes through: P1 joins Red, P2 joins either
\* team as its manager, the host starts the game, opens the scoring, moves
\* to the next round and reveals the final scores, P1 buzzes, the host
\* clears, and P1 submits 50 for the first round of the second game.
NextRoundTrip ==
    \/ Create(HostCh, TheCode, TheCode)
    \/ Join(PlayerCh, TheCode, {"P1"}, {"Red"}, {FALSE})
    \/ Join(PlayerCh, TheCode, {"P2"}, TeamNames, {TRUE})
    \/ Start(HostCh, TheCode, GameLists)
    \/ Buzz(PlayerCh, TheCode, {"P1"}, {"Red"})
    \/ ClearAll(HostCh, TheCode)
    \/ EnableScoring(HostCh, TheCode)
    \/ RoundUpdate(HostCh, TheCode)
    \/ Reveal(HostCh, TheCode)
    \/ SubmitScore(PlayerCh, TheCode, {"P1"}, {"Red"}, {2}, {1}, {50})

SpecRoundTrip == Init /\ [][NextRoundTrip]_vars

\* C17: saving a session and loading the record back gives a session with
\* the same teams (members, manager, round scores, total), buzz queue, game
\* list, cursor and flags, and no host channel.
SaveLoadRoundTrip ==
    \A c \in DOMAIN games :
        LET restored == loadGameState(<<plainState(games[c])>>)
        IN  /\ restored # <<>>
            /\ Persisted(restored[1]) = Persisted(games[c])
            /\ restored[1].players = games[c].players
            /\ restored[1].hostConnection = Null

\* a started session with both teams, a score behind three empty slots, a
\* pending buzz, the scoring open and the final scores revealed
SaveLoadRoundTripWitness ==
    /\ Resident
    /\ DOMAIN G.teams = TeamNames
    /\ G.teams["Red"].roundScores = <<<<>>, <<>>, <<>>, <<50>>>>
    /\ G.buzzedPlayers # <<>>
    /\ G.gameStarted /\ G.scoringEnabled /\ G.gameEnded
    /\ Persisted(loadGameState(<<plainState(G)>>)[1]) = Persisted(G)

\* ------------------------------------------------------------------ roster operations
\* the ids of a member list, in order
MemberIds(members) == [i \in 1..Len(members) |-> members[i].playerId]

AddPlayerIdempotent ==
    \A c \in DOMAIN games :
        /\ \A p \in PlayerIds, t \in TeamNames, m \in Booleans :
              LET once == addPlayer(games[c], p, t, m)
              IN  addPlayer(once, p, t, m) = once
        /\ \A t \in DOMAIN games[c].teams :
              LET ids == MemberIds(games[c].teams[t].members)
              IN  Cardinality({ids[i] : i \in 1..Len(ids)}) = Len(ids)

\* P1 has just joined Red again, after P2 joined it
AddPlayerIdempotentWitness ==
    /\ Resident
    /\ Has(G.teams, "Red")
    /\ MemberIds(G.teams["Red"].members) = <<"P1", "P2">>
    /\ sent # <<>>
    /\ sent[1] = Msg("w2", "GAME_JOINED", "123456", "P1", "Red")

\* ------------------------------------------------------------------ directory
\* the channels of the directory that hold the host role for the code c
HostsOf(c) ==
    {ch \in DOMAIN connections :
        connections[ch].type = "host" /\ connections[ch].gameCode = c}

\* C21: at any time at most one channel of the directory holds the host
\* role for a given game code.
OneHostPerCode ==
    \A c \in Codes : Cardinality(HostsOf(c)) <= 1

\* a snapshot that holds no record, or a record past its expiresAt
NotRestorable(snap) == snap = <<>> \/ now > snap[1].expiresAt

GameNotFound(ws) == Msg(ws, "ERROR", "Game not found", Null, Null)

\* C22: a join of a code that is neither resident nor restorable (no
\* record, or a record past expiresAt) creates no session, adds no player
\* and makes no directory entry, neither when it is handled nor when its
\* load resolves, and the resolved load answers the sender with the
\* game-not-found error.
JoinOfUnknownCodeRefused ==
    [][/\ \A ws \in GuestCh, c \in TheCode :
            (/\ ~Has(games, c)
             /\ NotRestorable(snapshot(store, c))
             /\ handleJoinGame(ws, c, "P1", "Red", FALSE))
            => /\ games' = games
               /\ connections' = connections
               /\ Len(pending') = Len(pending) + 1
       /\ \A i \in 1..Len(pending) :
            (/\ ~Has(games, pending[i].gameCode)
             /\ NotRestorable(pending[i].data)
             /\ NotRestorable(snapshot(store, pending[i].gameCode))
             /\ loadResolved(i))
            => /\ games' = games
               /\ connections' = connections
               /\ pending[i].ws \notin closed
                    => sent' = <<GameNotFound(pending[i].ws)>>]_vars

\* the load of a join of a code whose record has expired has resolved
JoinOfUnknownCodeRefusedWitness ==
    /\ sent = <<GameNotFound("w3")>>
    /\ ~Has(games, "123456")
    /\ Has(store, "123456")
    /\ now > store["123456"].expiresAt
    /\ ~Has(connections, "w3")

\* ------------------------------------------------------------------ SpecErrors
\* The replies to messages that cannot be served: w1 creates the game and
\* may start it; w3 joins as P1 of Red under either code, submits scores for
\* either team, asks for the teams, and sends envelopes that do not parse
\* or whose type is unknown.
Malformed(W) ==
    \E ws \in W \ closed : parseError(ws)

Unknown(W) ==
    \E ws \in W \ closed : unknownType(ws)

GetTeams(W, C) ==
    \E ws \in W \ closed, c \in C : handleGetTeams(ws, c)

NextErrors ==
    \/ Create(HostCh, TheCode, TheCode)
    \/ JoinAny(GuestCh, Codes, {"P1"}, {"Red"}, Booleans)
    \/ LoadResolved
    \/ Start(HostCh, TheCode, GameLists)
    \/ SubmitScore(GuestCh, TheCode, {"P1"}, TeamNames, {1}, Rounds, Scores)
    \/ GetTeams(GuestCh, Codes)
    \/ Malformed(GuestCh)
    \/ Unknown(GuestCh)

SpecErrors == Init /\ [][NextErrors]_vars

\* C23: an invalid-format error is sent only in answer to an envelope that
\* failed to decode.
InvalidFormatOnlyForUndecodable ==
    [][(\E i \in 1..Len(sent') : sent'[i] = InvalidFormat(sent'[i].to))
        => \E ws \in Channels : parseError(ws)]_vars

\* C24: a score submitted for a team the session does not have is answered
\* with one error event, sent to the channel it came from, and changes no
\* state.
ScoreForAbsentTeamRefused ==
    [][\A ws \in GuestCh, c \in TheCode, t \in TeamNames, r \in Rounds, sc \in Scores :
        (/\ Has(games, c)
         /\ ~Has(games[c].teams, t)
         /\ handleSubmitScore(ws, c, "P1", t, 1, r, sc))
        => /\ Len(sent') = 1
           /\ sent'[1].to = ws
           /\ sent'[1].type = "ERROR"
           /\ UNCHANGED <<games, connections, store>>]_vars

\* C25: a handler that writes to the store issues the write after its
\* replies and broadcasts: nothing goes out to a channel after the write.
WriteIssuedAfterReplies ==
    [][\A i \in 1..Len(sent') :
        sent'[i] = dbSet(sent'[i].text) => i = Len(sent')]_vars

\* ------------------------------------------------------------------ SpecSenders
\* One game whose player messages come from any channel: w1 creates and
\* starts the game, w2 joins as P1 or P2 of Red, and every channel, bound or
\* not, buzzes, submits scores and leaves in the name of either player.
NextSenders ==
    \/ Create(HostCh, TheCode, TheCode)
    \/ Join(PlayerCh, TheCode, TwoPlayers, {"Red"}, {TRUE})
    \/ Start(HostCh, TheCode, GameLists)
    \/ Buzz(Channels, TheCode, TwoPlayers, {"Red"})
    \/ SubmitScore(Channels, TheCode, TwoPlayers, {"Red"}, {1}, Rounds, Scores)
    \/ Leave(Channels, TheCode, TwoPlayers)
    \/ ClearAll(HostCh, TheCode)

SpecSenders == Init /\ [][NextSenders]_vars

\* the registries a buzz by p can leave behind
BuzzOutcomes(c, p) ==
    {games} \cup (IF Has(games, c)
                  THEN {MapSet(games, c, handleBuzz(games[c], p).game)}
                  ELSE {})

\* the registries a score sc of p for round r of the first game can leave
\* behind
SubmitOutcomes(c, p, r, sc) ==
    {games} \cup
    (IF Has(games, c) /\ Has(games[c].teams, "Red")
     THEN LET scores == writeScore(games[c].teams["Red"].roundScores,
                                   roundIndexOf(games[c].games, 1, r), sc)
          IN  {[games EXCEPT ![c].teams["Red"].roundScores = scores,
                             ![c].teams["Red"].totalScore = sumScores(scores)]}
     ELSE {})

\* the registries a leave of p can leave behind
LeaveOutcomes(c, p) ==
    {games} \cup (IF Has(games, c)
                  THEN {MapSet(games, c, removePlayer(games[c], p))}
                  ELSE {})

\* PLAYER_BUZZ in the name of p leaves the same registry from ws1 and ws2
BuzzSameFrom(ws1, ws2, c, p) ==
    /\ \E g \in BuzzOutcomes(c, p) :
            ENABLED (handlePlayerBuzz(ws1, c, p, "Red") /\ games' = g)
    /\ \A g \in BuzzOutcomes(c, p) :
            (ENABLED (handlePlayerBuzz(ws1, c, p, "Red") /\ games' = g))
            <=> (ENABLED (handlePlayerBuzz(ws2, c, p, "Red") /\ games' = g))

\* SUBMIT_SCORE in the name of p leaves the same registry from ws1 and ws2
SubmitSameFrom(ws1, ws2, c, p) ==
    \A r \in Rounds, sc \in Scores :
        /\ \E g \in SubmitOutcomes(c, p, r, sc) :
                ENABLED (handleSubmitScore(ws1, c, p, "Red", 1, r, sc) /\ games' = g)
        /\ \A g \in SubmitOutcomes(c, p, r, sc) :
                (ENABLED (handleSubmitScore(ws1, c, p, "Red", 1, r, sc) /\ games' = g))
                <=> (ENABLED (handleSubmitScore(ws2, c, p, "Red", 1, r, sc) /\ games' = g))

\* LEAVE_GAME in the name of p leaves the same registry from ws1 and ws2
LeaveSameFrom(ws1, ws2, c, p) ==
    /\ \E g \in LeaveOutcomes(c, p) :
            ENABLED (handleLeaveGame(ws1, c, p) /\ games' = g)
    /\ \A g \in LeaveOutcomes(c, p) :
            (ENABLED (handleLeaveGame(ws1, c, p) /\ games' = g))
            <=> (ENABLED (handleLeaveGame(ws2, c, p) /\ games' = g))

\* C26 as claimed: what PLAYER_BUZZ, SUBMIT_SCORE and LEAVE_GAME do to the
\* session is the same from every sending channel, whatever its entry in
\* the directory.
SessionEffectIgnoresSender ==
    \A ws1 \in Channels, ws2 \in Channels, c \in TheCode, p \in TwoPlayers :
        /\ BuzzSameFrom(ws1, ws2, c, p)
        /\ SubmitSameFrom(ws1, ws2, c, p)
        /\ LeaveSameFrom(ws1, ws2, c, p)

\* C26 as amended: what PLAYER_BUZZ and SUBMIT_SCORE do to the session is
\* the same from every sending channel; what LEAVE_GAME does is the same
\* from every channel that has a directory entry, whatever the entry, and a
\* LEAVE_GAME from a channel without an entry changes nothing.
SessionEffectIgnoresSenderEntry ==
    \A ws1 \in Channels, ws2 \in Channels, c \in TheCode, p \in TwoPlayers :
        /\ BuzzSameFrom(ws1, ws2, c, p)
        /\ SubmitSameFrom(ws1, ws2, c, p)
        /\ (Has(connections, ws1) /\ Has(connections, ws2))
                => LeaveSameFrom(ws1, ws2, c, p)
        /\ ~Has(connections, ws1)
                => ~ENABLED (handleLeaveGame(ws1, c, p) /\ games' # games)

\* a started session with P1 and P2 in Red, w2 being bound as P2, w1 as
\* host and w3 not at all, and the last message having been a buzz in the
\* name of P2 that was sent from the unbound w3 and succeeded
SessionEffectIgnoresSenderEntryWitness ==
    /\ Resident /\ G.gameStarted
    /\ Has(G.players, "P1") /\ Has(G.players, "P2")
    /\ Has(connections, "w1") /\ connections["w1"].type = "host"
    /\ Has(connections, "w2") /\ connections["w2"].playerId = "P2"
    /\ ~Has(connections, "w3")
    /\ sent # <<>> /\ sent[1] = Msg("w3", "BUZZ_RESPONSE", "Buzzed in!", "P2", Null)

\* C27: while a session stays resident, its started flag, once true, stays
\* true, and so does its ended flag.
StartedAndEndedStay ==
    [][\A c \in DOMAIN games \cap DOMAIN games' :
        /\ games[c].gameStarted => games'[c].gameStarted
        /\ games[c].gameEnded => games'[c].gameEnded]_vars

\* how many of the messages msgs are of the type and go to the channel
CountOf(msgs, type, to) ==
    Cardinality({i \in 1..Len(msgs) : msgs[i].type = type /\ msgs[i].to = to})

\* C28: a join of a resident session puts the player in the session, binds
\* the channel, sends the sender exactly one joined event and the host
\* exactly one player-joined event.
JoinAnsweredOnce ==
    [][\A ws \in PlayerCh, c \in TheCode, p \in TwoPlayers, t \in TeamNames :
        (/\ Has(games, c)
         /\ games[c].hostConnection \notin closed
         /\ handleJoinGame(ws, c, p, t, FALSE))
        => /\ Has(games'[c].players, p)
           /\ IsMember(games'[c].teams[t], p)
           /\ connections'[ws] = PlayerInfo(c, p, t)
           /\ CountOf(sent', "GAME_JOINED", ws) = 1
           /\ CountOf(sent', "PLAYER_JOINED", games[c].hostConnection) = 1]_vars

\* C29: after LEAVE_GAME for p from a channel of the directory against a
\* resident session, p is in no member list, not in the player mapping and
\* in no buzz record, the channel has no directory entry, and the host has
\* received one left event.
LeaveRemovesPlayerEverywhere ==
    [][\A ws \in PlayerCh, c \in TheCode, p \in TwoPlayers :
        (/\ Has(connections, ws)
         /\ Has(games, c)
         /\ handleLeaveGame(ws, c, p))
        => /\ \A t \in DOMAIN games'[c].teams : ~IsMember(games'[c].teams[t], p)
           /\ ~Has(games'[c].players, p)
           /\ \A i \in 1..Len(games'[c].buzzedPlayers) :
                    games'[c].buzzedPlayers[i].playerId # p
           /\ ~Has(connections', ws)
           /\ CountOf(sent', "PLAYER_LEFT", games[c].hostConnection) = 1]_vars

\* the players of session g that team t lists as members and whose own
\* entry names t as their team
PlayersOfTeam(g, t) ==
    {p \in DOMAIN g.players :
        g.players[p].teamName = t /\ Has(g.teams, t) /\ IsMember(g.teams[t], p)}

\* C30: CLEAR_PLAYER_BUZZ for p removes p's record and nothing else from
\* the queue (nothing at all when p has none), keeps the other records in
\* their order, leaves every member of the cleared team able to buzz in a
\* started session, and sends the cleared event only to player channels of
\* the cleared record's team.
ClearPlayerBuzzContract ==
    [][\A c \in TheCode, p \in TwoPlayers :
        (hostGuard("w1", c) /\ handleClearPlayerBuzz("w1", c, p))
        => LET q == games[c].buzzedPlayers
               NotHis(b) == b.playerId # p
               i == buzzIndex(q, p)
           IN  /\ games' = [games EXCEPT ![c].buzzedPlayers = SelectSeq(q, NotHis)]
               /\ i = 0 => games' = games /\ sent' = <<>>
               /\ i # 0 =>
                    /\ Len(games'[c].buzzedPlayers) = Len(q) - 1
                    /\ \A k \in 1..Len(sent') :
                            /\ sent'[k].type = "CLEAR_BUZZERS"
                            /\ connections[sent'[k].to] =
                                 PlayerInfo(c, connections[sent'[k].to].playerId,
                                            q[i].teamName)
                    /\ games[c].gameStarted =>
                            \A m \in PlayersOfTeam(games'[c], q[i].teamName) :
                                buzzAccepted(games'[c], m)]_vars

\* C31: CLEAR_LAST_BUZZ from the host removes the newest record of the
\* queue and leaves the earlier ones as they were and in order; on an empty
\* queue it changes nothing and sends nothing.
ClearLastBuzzContract ==
    [][\A c \in TheCode :
        (hostGuard("w1", c) /\ handleClearLastBuzz("w1", c))
        => LET q == games[c].buzzedPlayers
           IN  /\ Len(q) = 0 => games' = games /\ sent' = <<>>
               /\ Len(q) > 0 =>
                    /\ games' = [games EXCEPT ![c].buzzedPlayers = SubSeq(q, 1, Len(q) - 1)]
                    /\ sent' # <<>>
                    /\ sent'[1] = Msg("w1", "BUZZ_CLEARED", Null,
                                      q[Len(q)].playerId, q[Len(q)].teamName)]_vars

\* the newer of two records has just been cleared: the older one is still
\* in the queue and the host has been told who was cleared
ClearLastBuzzContractWitness ==
    /\ Resident
    /\ Len(G.buzzedPlayers) = 1
    /\ sent # <<>>
    /\ sent[1].type = "BUZZ_CLEARED"
    /\ sent[1].playerId # G.buzzedPlayers[1].playerId

\* the step has sent the event `type` once to every open channel bound to
\* the code c but the sender ws, and to no other channel
ReceivedByOthersOfCode(type, ws, c) ==
    \A ch \in Channels :
        CountOf(sent', type, ch) =
            IF /\ ch # ws
               /\ Has(connections, ch)
               /\ connections[ch].gameCode = c
               /\ ch \notin closed
            THEN 1 ELSE 0

\* C32: an accepted GAME_STARTED, ROUND_UPDATE, CLEAR_BUZZERS,
\* ENABLE_SCORING, MANAGER_CHANGED or REVEAL_FINAL_SCORES on code c reaches
\* every open channel bound to c other than the sender exactly once, and
\* neither the sender nor a channel bound to another code.
HostBroadcastReachesOthersOnce ==
    [][\A ws \in Channels, c \in TheCode :
        hostGuard(ws, c) =>
            /\ Start({ws}, {c}, GameLists)
                    => ReceivedByOthersOfCode("GAME_STARTED", ws, c)
            /\ RoundUpdate({ws}, {c})
                    => ReceivedByOthersOfCode("ROUND_UPDATE", ws, c)
            /\ ClearAll({ws}, {c})
                    => ReceivedByOthersOfCode("CLEAR_BUZZERS", ws, c)
            /\ EnableScoring({ws}, {c})
                    => ReceivedByOthersOfCode("ENABLE_SCORING", ws, c)
            /\ (Has(games[c].teams, "Red") /\ ManagerChanged({ws}, {c}, {"P2"}, {"Red"}))
                    => ReceivedByOthersOfCode("MANAGER_CHANGED", ws, c)
            /\ Reveal({ws}, {c})
                    => ReceivedByOthersOfCode("REVEAL_FINAL_SCORES", ws, c)]_vars

\* the host w1 has started 123456: the player channel w3 bound to it has the
\* event, the host w2 of 654321 and w1 itself have not
HostBroadcastReachesOthersOnceWitness ==
    /\ sent = <<Msg("w3", "GAME_STARTED", Null, Null, Null)>>
    /\ HostOf("w1", "123456")
    /\ HostOf("w2", "654321")
    /\ Has(connections, "w3") /\ connections["w3"].gameCode = "123456"
    /\ G.gameStarted

\* ------------------------------------------------------------------ SpecRebind
\* One player over two channels: w2 joins Red as P1 or P2 while w3 is not
\* bound, then w3 joins, so that of two entries of one player w3's is the
\* later one; the player w3 is bound as buzzes over w3, the host clears
\* buzzes and corrects Red's score, and the earlier channel w2 may close.
NextRebind ==
    \/ Create(HostCh, TheCode, TheCode)
    \/ ~Has(connections, "w3") /\ Join(PlayerCh, TheCode, TwoPlayers, {"Red"}, {FALSE})
    \/ Join(GuestCh, TheCode, TwoPlayers, {"Red"}, {FALSE})
    \/ Start(HostCh, TheCode, GameLists)
    \/ \E p \in TwoPlayers :
            /\ Has(connections, "w3") /\ connections["w3"].playerId = p
            /\ Buzz(GuestCh, TheCode, {p}, {"Red"})
    \/ ClearPlayer(HostCh, TheCode, TwoPlayers)
    \/ ClearLast(HostCh, TheCode)
    \/ ScoreUpdated(HostCh, TheCode, {"Red"})
    \/ Close(PlayerCh)

SpecRebind == Init /\ [][NextRebind]_vars

\* a message that goes to the player channels of a team: the lock-out of
\* the teammates, the cleared buzz, the corrected score
IsTeamEvent(m) ==
    \/ m.type = "BUZZ_RESPONSE" /\ m.text = "Your teammate beat you to it!"
    \/ m.type = "CLEAR_BUZZERS"
    \/ m.type = "SCORE_UPDATED"

\* w2 and w3 are both bound as the same player of the code c, w3 being the
\* later one in SpecRebind
BoundTwice(c) ==
    /\ Has(connections, "w2") /\ Has(connections, "w3")
    /\ connections["w2"].gameCode = c /\ connections["w3"].gameCode = c
    /\ connections["w2"].playerId = connections["w3"].playerId

\* C33: when a player has bound from two channels for one code, what is
\* sent to the player's team reaches the later channel only, not the earlier
\* one.
TeamEventsToLatestChannelOnly ==
    [][\A c \in TheCode :
        BoundTwice(c) =>
            \A k \in 1..Len(sent') :
                IsTeamEvent(sent'[k]) => sent'[k].to # "w2"]_vars

\* C34: an accepted ROUND_UPDATE leaves scoring disabled and the cursor at
\* the game and round it carries; scoring becomes enabled only by an
\* accepted ENABLE_SCORING, which changes nothing else in the session.
ScoringDisabledUntilEnabled ==
    [][\A c \in TheCode :
        /\ \A ws \in Channels :
            (hostGuard(ws, c) /\ handleRoundUpdate(ws, c, 1, 2))
            => /\ ~games'[c].scoringEnabled
               /\ games'[c].currentGame = 1
               /\ games'[c].currentRound = 2
        /\ \A ws \in Channels :
            (hostGuard(ws, c) /\ handleEnableScoring(ws, c))
            => games' = [games EXCEPT ![c].scoringEnabled = TRUE]
        /\ (/\ Has(games, c) /\ Has(games', c)
            /\ ~games[c].scoringEnabled /\ games'[c].scoringEnabled)
            => \E ws \in Channels : hostGuard(ws, c) /\ handleEnableScoring(ws, c)]_vars

\* scoring has just been enabled for the round a ROUND_UPDATE moved the
\* cursor to
ScoringDisabledUntilEnabledWitness ==
    /\ Resident
    /\ G.scoringEnabled
    /\ G.currentRound = 2
    /\ \E k \in 1..Len(sent) : sent[k].type = "ENABLE_SCORING"

\* ------------------------------------------------------------------ SpecEvictFair
\* SpecEvict with the timers of setTimeout firing: a timer that has been
\* set is run by the event loop once its five minutes are over.
SpecEvictFair == SpecEvict /\ WF_vars(Timer(TheCode))

\* C35: when a channel bound as host has closed while its session was
\* resident (an abandonment timer of the code is set), the code is
\* eventually out of the registry, and no eviction deletes the record of
\* the code in the store.
AbandonedSessionEvicted ==
    /\ \A c \in TheCode : (timers[c] # <<>>) ~> ~Has(games, c)
    /\ [][\A c \in DOMAIN games :
            c \notin DOMAIN games' => store' = store]_vars

\* the timer set by the close of the host w1 has fired within the first
\* hours, before any sweep could evict, and the record is still in the store
AbandonedSessionEvictedWitness ==
    /\ "w1" \in closed
    /\ ~Has(connections, "w1")
    /\ ~Has(games, "123456")
    /\ timers["123456"] = <<>>
    /\ now < 2
    /\ Has(store, "123456")

\* C36: once the close of a channel has been handled, the directory has no
\* entry for the channel, be the session of its code resident or not.
ClosedChannelUnbound ==
    [][\A ws \in Channels :
        channelClosed(ws) => ~Has(connections', ws)]_vars

\* C37: the player-joined event of a join of code c goes only to a channel
\* whose directory entry, as the event is sent, has role host for c.
HostEventsToBoundHostOnly ==
    [][\A ws \in Channels, c \in Codes :
        (Has(games, c) /\ handleJoinGame(ws, c, "P1", "Red", FALSE))
        => \A k \in 1..Len(sent') :
            sent'[k].type = "PLAYER_JOINED"
            => /\ Has(connections', sent'[k].to)
               /\ connections'[sent'[k].to] = HostInfo(c)]_vars

\* C38: in every reachable state the manager of each team is a player of
\* the player mapping whose team name is that team.
ManagerIsPlayerOfTeam ==
    \A c \in DOMAIN games : \A t \in DOMAIN games[c].teams :
        /\ Has(games[c].players, games[c].teams[t].manager)
        /\ games[c].players[games[c].teams[t].manager].teamName = t

\* the weaker half alone: the manager of each team is in the player mapping,
\* so that some SUBMIT_SCORE for the team passes the manager test
ManagerIsPlayer ==
    \A c \in DOMAIN games : \A t \in DOMAIN games[c].teams :
        Has(games[c].players, games[c].teams[t].manager)

\* C39: when a player is bound over w2 and, later, over w3, the close of
\* the earlier channel w2 leaves the player's buzz, made over w3, in the
\* queue.
StaleCloseKeepsBuzz ==
    [][\A c \in TheCode :
        (/\ Has(games, c)
         /\ BoundTwice(c)
         /\ channelClosed("w2"))
        => \A i \in 1..Len(games[c].buzzedPlayers) :
            games[c].buzzedPlayers[i].playerId = connections["w2"].playerId
            => \E j \in 1..Len(games'[c].buzzedPlayers) :
                    games'[c].buzzedPlayers[j] = games[c].buzzedPlayers[i]]_vars

\* C40: a SUBMIT_SCORE by the manager of a team is accepted and recorded
\* whatever scoringEnabled, gameStarted and gameEnded are: the score is
\* written at the index of the round, the total is the sum, the sender gets
\* the confirmation, and the three flags are left as they were.
SubmitScoreIgnoresFlags ==
    [][\A c \in TheCode :
        (/\ Has(games, c)
         /\ Has(games[c].teams, "Red")
         /\ Has(games[c].players, "P1")
         /\ games[c].teams["Red"].manager = "P1"
         /\ handleSubmitScore("w2", c, "P1", "Red", 2, 1, 50))
        => LET scores == writeScore(games[c].teams["Red"].roundScores,
                                    roundIndexOf(games[c].games, 2, 1), 50)
           IN  /\ games' = [games EXCEPT
                               ![c].teams["Red"].roundScores = scores,
                               ![c].teams["Red"].totalScore = sumScores(scores)]
               /\ CountOf(sent', "SCORE_CONFIRMED", "w2") = 1
               /\ CountOf(sent', "ERROR", "w2") = 0]_vars

\* a score of Red's manager has just been confirmed in a session that has
\* ended and whose scoring is disabled
SubmitScoreIgnoresFlagsWitness ==
    /\ Resident
    /\ G.gameStarted /\ G.gameEnded /\ ~G.scoringEnabled
    /\ Has(G.teams, "Red") /\ G.teams["Red"].manager = "P1"
    /\ G.teams["Red"].totalScore = 50
    /\ CountOf(sent, "SCORE_CONFIRMED", "w2") = 1

====
